---- MODULE Spec2Model ----
(***************************************************************************)
(* Model of the FinanceTracker ledger of rayane_course_project.py: the     *)
(* user registry, the group-deposit list, the per-user expense lists, the  *)
(* deposit-limit record and the files written by save_expense_history.     *)
(*                                                                         *)
(* A user id is a sequence of character codes, so that str.lower() is a    *)
(* real per-character conversion.  An Expense has no __eq__, so Python     *)
(* compares expenses by identity: every Expense carries the object         *)
(* identity `oid` it got when it was constructed.                          *)
(***************************************************************************)
EXTENDS Integers, Sequences, FiniteSets, TLC

(* ------------------------------ bounds --------------------------------- *)
MaxDeposits == 2      \* records in _group_deposits
MaxExpenses == 3      \* Expense objects constructed by add_expense
MaxIds      == 2      \* length of the id list of one group deposit
CoreExpenses == 1     \* Expense objects where every operation is interleaved

(* ------------------------------ inputs --------------------------------- *)
\* "a", "A", "Bo"
RawIds      == { <<97>>, <<65>>, <<66, 111>> }
\* <<name, account_number>>
Profiles    == { <<"Alice", "123">>, <<"Bob", "456">> }
DepositAmounts == { 100 }
NoDate      == ""                       \* date=None (or any falsy date)
\* <<amount, category, date>>
ExpenseInputs == { <<50, "Food", NoDate>>, <<30, "Transportation", "2024-04-20">> }
Today       == { "2024-04-21" }         \* datetime.now().strftime("%Y-%m-%d")
FileNames   == { "expense_history_a.txt" }
Periods     == { "daily", "weekly", "monthly", "yearly" }
None        == << >>                    \* Python None in _deposit_limits
Limits      == { <<100>>, None }

IdLists == UNION { [1..n -> RawIds] : n \in 0..MaxIds }

\* the inputs of the specification that interleaves every operation
CoreIds     == { <<65>>, <<66, 111>> }  \* "A", "Bo"
CoreProfile == <<"Alice", "123">>
CoreExpense == <<50, "Food", NoDate>>
CorePeriods == { "daily", "yearly" }
CoreLimit   == <<100>>
CoreIdLists == UNION { [1..n -> CoreIds] : n \in 0..MaxIds }

(* ------------------------------ helpers -------------------------------- *)
Range(s) == { s[i] : i \in 1..Len(s) }

\* str.lower() on one character (ASCII letters)
lower_char(c) == IF c \in 65..90 THEN c + 32 ELSE c

\* mutant of lower: the id is used as typed
lower_as_typed(s) == s

\* str.lower()
lower(s) == [i \in 1..Len(s) |-> lower_char(s[i])]

\* Expense.__init__: a falsy date is replaced by the current day
Expense(oid, amount, category, date, now) ==
    [oid |-> oid, amount |-> amount, category |-> category,
     date |-> IF date # NoDate THEN date ELSE now]

\* Expense.__str__
Expense__str__(e) ==
    e.date \o ": $" \o ToString(e.amount) \o " - " \o e.category

\* ExpenseFactory.create_expense
create_expense(oid, amount, category, date, now) ==
    Expense(oid, amount, category, date, now)

\* `expense in lst` for objects compared by identity
Contains(lst, oid) == \E i \in 1..Len(lst) : lst[i].oid = oid

\* mutant of list_remove: drops the last element, whatever x is
list_remove_last(lst, oid) == SubSeq(lst, 1, Len(lst) - 1)

\* list.remove(x): drops the first element equal to x
RECURSIVE list_remove(_, _)
list_remove(lst, oid) ==
    IF lst = << >> THEN << >>
    ELSE IF Head(lst).oid = oid THEN Tail(lst)
         ELSE << Head(lst) >> \o list_remove(Tail(lst), oid)

\* the lines written by save_expense_history / printed by print_expense_history
Lines(lst) == [i \in 1..Len(lst) |-> Expense__str__(lst[i])]

Report(kind, ids, lines) == [kind |-> kind, ids |-> ids, lines |-> lines]
Silent == Report("none", {}, << >>)

(* ------------------------------- state --------------------------------- *)
VARIABLES
    users,           \* _users: lower-cased id -> user record
    group_deposits,  \* _group_deposits: sequence of <<amount, ids>>
    deposit_limits,  \* _deposit_limits
    files,           \* file system: name -> sequence of written chunks
    out,             \* what the last call printed
    next_oid,        \* identity of the next Expense object
    added            \* ids passed to add_user so far (history)

vars == << users, group_deposits, deposit_limits, files, out, next_oid, added >>

\* FinanceTracker.__new__ (first construction)
Init ==
    /\ users = << >>
    /\ group_deposits = << >>
    /\ deposit_limits = [p \in {"daily", "weekly", "monthly"} |-> None]
    /\ files = << >>
    /\ out = Silent
    /\ next_oid = 1
    /\ added = {}

(* ------------------------------ actions -------------------------------- *)
\* mutant of add_user: a registered id is registered again
add_user_overwrite(user_id, name, account_number) ==
    LET uid == lower(user_id) IN
    /\ added' = added \cup {user_id}
    /\ users' = [k \in DOMAIN users \cup {uid} |->
                    IF k = uid
                    THEN [name |-> name, account_number |-> account_number,
                          balance |-> 0, expenses |-> << >>]
                    ELSE users[k]]
    /\ out' = IF uid \in DOMAIN users
              THEN Report("already_exists", {uid}, << >>)
              ELSE Report("user_added", DOMAIN users', << name >>)
    /\ UNCHANGED << group_deposits, deposit_limits, files, next_oid >>

add_user(user_id, name, account_number) ==
    LET uid == lower(user_id) IN
    /\ added' = added \cup {user_id}
    /\ IF uid \in DOMAIN users
       THEN /\ out' = Report("already_exists", {uid}, << >>)
            /\ UNCHANGED users
       ELSE /\ users' = [k \in DOMAIN users \cup {uid} |->
                            IF k = uid
                            THEN [name |-> name, account_number |-> account_number,
                                  balance |-> 0, expenses |-> << >>]
                            ELSE users[k]]
            /\ out' = Report("user_added", DOMAIN users', << name >>)
    /\ UNCHANGED << group_deposits, deposit_limits, files, next_oid >>

\* mutant of add_group_deposit: the registered ids are credited before the
\* missing ones are noticed
add_group_deposit_partial(deposit_amount, raw_ids) ==
    LET user_ids    == [i \in 1..Len(raw_ids) |-> lower(raw_ids[i])]
        valid_users == Range(user_ids) \cap DOMAIN users
    IN
    /\ users' = [k \in DOMAIN users |->
                    IF k \in Range(user_ids)
                    THEN [users[k] EXCEPT !.balance = @ + deposit_amount]
                    ELSE users[k]]
    /\ IF Cardinality(valid_users) = Len(user_ids)
       THEN /\ Len(group_deposits) < MaxDeposits
            /\ group_deposits' = Append(group_deposits, << deposit_amount, user_ids >>)
            /\ out' = Report("deposit_added", Range(user_ids), << >>)
       ELSE /\ out' = Report("deposit_failed", Range(user_ids) \ valid_users, << >>)
            /\ UNCHANGED group_deposits
    /\ UNCHANGED << deposit_limits, files, next_oid, added >>

\* mutant of add_group_deposit: a rejection reports every id of the call
add_group_deposit_reports_all(deposit_amount, raw_ids) ==
    LET user_ids    == [i \in 1..Len(raw_ids) |-> lower(raw_ids[i])]
        valid_users == Range(user_ids) \cap DOMAIN users
    IN
    /\ IF Cardinality(valid_users) = Len(user_ids)
       THEN /\ Len(group_deposits) < MaxDeposits
            /\ users' = [k \in DOMAIN users |->
                            IF k \in Range(user_ids)
                            THEN [users[k] EXCEPT !.balance = @ + deposit_amount]
                            ELSE users[k]]
            /\ group_deposits' = Append(group_deposits, << deposit_amount, user_ids >>)
            /\ out' = Report("deposit_added", Range(user_ids), << >>)
       ELSE /\ out' = Report("deposit_failed", Range(user_ids), << >>)
            /\ UNCHANGED << users, group_deposits >>
    /\ UNCHANGED << deposit_limits, files, next_oid, added >>

add_group_deposit(deposit_amount, raw_ids) ==
    LET user_ids    == [i \in 1..Len(raw_ids) |-> lower(raw_ids[i])]
        valid_users == Range(user_ids) \cap DOMAIN users   \* keys of the dict
    IN
    /\ IF Cardinality(valid_users) = Len(user_ids)
       THEN /\ Len(group_deposits) < MaxDeposits
            /\ users' = [k \in DOMAIN users |->
                            IF k \in Range(user_ids)
                            THEN [users[k] EXCEPT !.balance = @ + deposit_amount]
                            ELSE users[k]]
            /\ group_deposits' = Append(group_deposits, << deposit_amount, user_ids >>)
            /\ out' = Report("deposit_added", Range(user_ids), << >>)
       ELSE /\ out' = Report("deposit_failed", Range(user_ids) \ valid_users, << >>)
            /\ UNCHANGED << users, group_deposits >>
    /\ UNCHANGED << deposit_limits, files, next_oid, added >>

\* mutant of add_expense: the expense is taken from the balance
add_expense_debits(user_id, amount, category, date, now) ==
    LET uid == lower(user_id) IN
    /\ IF uid \in DOMAIN users
       THEN /\ next_oid <= MaxExpenses
            /\ users' = [users EXCEPT
                            ![uid].expenses =
                                Append(@, create_expense(next_oid, amount, category,
                                                         date, now)),
                            ![uid].balance = @ - amount]
            /\ next_oid' = next_oid + 1
            /\ out' = Silent
       ELSE /\ out' = Report("user_not_found", {uid}, << >>)
            /\ UNCHANGED << users, next_oid >>
    /\ UNCHANGED << group_deposits, deposit_limits, files, added >>

add_expense(user_id, amount, category, date, now) ==
    LET uid == lower(user_id) IN
    /\ IF uid \in DOMAIN users
       THEN /\ next_oid <= MaxExpenses
            /\ users' = [users EXCEPT ![uid].expenses =
                            Append(@, create_expense(next_oid, amount, category,
                                                     date, now))]
            /\ next_oid' = next_oid + 1
            /\ out' = Silent
       ELSE /\ out' = Report("user_not_found", {uid}, << >>)
            /\ UNCHANGED << users, next_oid >>
    /\ UNCHANGED << group_deposits, deposit_limits, files, added >>

remove_expense(user_id, oid) ==
    LET uid == lower(user_id) IN
    /\ IF uid \in DOMAIN users
       THEN IF Contains(users[uid].expenses, oid)
            THEN /\ users' = [users EXCEPT ![uid].expenses = list_remove(@, oid)]
                 /\ out' = Silent
            ELSE /\ out' = Report("expense_not_found", {uid}, << >>)
                 /\ UNCHANGED users
       ELSE /\ out' = Report("user_not_found", {uid}, << >>)
            /\ UNCHANGED users
    /\ UNCHANGED << group_deposits, deposit_limits, files, next_oid, added >>

print_expense_history(user_id) ==
    LET uid == lower(user_id) IN
    /\ IF uid \in DOMAIN users
       THEN out' = Report("expense_history", {uid},
                          << users[uid].name >> \o Lines(users[uid].expenses))
       ELSE out' = Report("user_not_found", {uid}, << >>)
    /\ UNCHANGED << users, group_deposits, deposit_limits, files, next_oid, added >>

\* mutant of save_expense_history: the file is opened in append mode
save_expense_history_append(user_id, filename) ==
    LET uid == lower(user_id) IN
    /\ IF uid \in DOMAIN users
       THEN /\ files' = [f \in DOMAIN files \cup {filename} |->
                            IF f = filename
                            THEN (IF f \in DOMAIN files THEN files[f] ELSE << >>)
                                 \o [i \in 1..Len(users[uid].expenses) |->
                                        Expense__str__(users[uid].expenses[i]) \o "\n"]
                            ELSE files[f]]
            /\ out' = Silent
       ELSE /\ out' = Report("user_not_found", {uid}, << >>)
            /\ UNCHANGED files
    /\ UNCHANGED << users, group_deposits, deposit_limits, next_oid, added >>

\* mutant of save_expense_history: the file is opened before the id is looked up
save_expense_history_open_first(user_id, filename) ==
    LET uid == lower(user_id) IN
    /\ files' = [f \in DOMAIN files \cup {filename} |->
                    IF f = filename
                    THEN (IF uid \in DOMAIN users
                          THEN [i \in 1..Len(users[uid].expenses) |->
                                   Expense__str__(users[uid].expenses[i]) \o "\n"]
                          ELSE << >>)
                    ELSE files[f]]
    /\ out' = IF uid \in DOMAIN users THEN Silent
              ELSE Report("user_not_found", {uid}, << >>)
    /\ UNCHANGED << users, group_deposits, deposit_limits, next_oid, added >>

save_expense_history(user_id, filename) ==
    LET uid == lower(user_id) IN
    /\ IF uid \in DOMAIN users
       THEN /\ files' = [f \in DOMAIN files \cup {filename} |->
                            IF f = filename
                            THEN [i \in 1..Len(users[uid].expenses) |->
                                     Expense__str__(users[uid].expenses[i]) \o "\n"]
                            ELSE files[f]]
            /\ out' = Silent
       ELSE /\ out' = Report("user_not_found", {uid}, << >>)
            /\ UNCHANGED files
    /\ UNCHANGED << users, group_deposits, deposit_limits, next_oid, added >>

\* mutant of set_deposit_limit: the period is not looked up first
set_deposit_limit_any_period(period, limit) ==
    /\ deposit_limits' = [q \in DOMAIN deposit_limits \cup {period} |->
                             IF q = period THEN limit ELSE deposit_limits[q]]
    /\ out' = Silent
    /\ UNCHANGED << users, group_deposits, files, next_oid, added >>

set_deposit_limit(period, limit) ==
    /\ IF period \in DOMAIN deposit_limits
       THEN deposit_limits' = [deposit_limits EXCEPT ![period] = limit]
       ELSE UNCHANGED deposit_limits
    /\ out' = Silent
    /\ UNCHANGED << users, group_deposits, files, next_oid, added >>

\* every operation, interleaved
Next ==
    \/ \E id \in CoreIds : add_user(id, CoreProfile[1], CoreProfile[2])
    \/ \E amt \in DepositAmounts, ids \in CoreIdLists : add_group_deposit(amt, ids)
    \/ /\ next_oid <= CoreExpenses
       /\ \E id \in CoreIds, now \in Today :
             add_expense(id, CoreExpense[1], CoreExpense[2], CoreExpense[3], now)
    \/ \E id \in CoreIds, oid \in 0..CoreExpenses : remove_expense(id, oid)
    \/ \E id \in CoreIds : print_expense_history(id)
    \/ \E id \in CoreIds, f \in FileNames : save_expense_history(id, f)
    \/ \E p \in CorePeriods : set_deposit_limit(p, CoreLimit)

Spec == Init /\ [][Next]_vars

\* group deposits over every id list and amount
NextDeposit ==
    \/ \E id \in CoreIds : add_user(id, CoreProfile[1], CoreProfile[2])
    \/ \E amt \in DepositAmounts, ids \in IdLists : add_group_deposit(amt, ids)
    \/ \E p \in CorePeriods : set_deposit_limit(p, CoreLimit)

SpecDeposit == Init /\ [][NextDeposit]_vars

\* the registry over every id and profile
NextRegistry ==
    \/ \E id \in RawIds, p \in Profiles : add_user(id, p[1], p[2])
    \/ \E amt \in DepositAmounts, ids \in CoreIdLists : add_group_deposit(amt, ids)
    \/ /\ next_oid <= CoreExpenses
       /\ \E id \in CoreIds, now \in Today :
             add_expense(id, CoreExpense[1], CoreExpense[2], CoreExpense[3], now)
    \/ \E p \in CorePeriods : set_deposit_limit(p, CoreLimit)

SpecRegistry == Init /\ [][NextRegistry]_vars

\* the deposit limits over every period and limit
NextLimits ==
    \/ \E id \in CoreIds : add_user(id, CoreProfile[1], CoreProfile[2])
    \/ \E amt \in DepositAmounts, ids \in CoreIdLists : add_group_deposit(amt, ids)
    \/ /\ next_oid <= CoreExpenses
       /\ \E id \in CoreIds, now \in Today :
             add_expense(id, CoreExpense[1], CoreExpense[2], CoreExpense[3], now)
    \/ \E p \in Periods, l \in Limits : set_deposit_limit(p, l)

SpecLimits == Init /\ [][NextLimits]_vars

\* the expense lists and their history over every expense input
NextExpense ==
    \/ \E id \in CoreIds : add_user(id, CoreProfile[1], CoreProfile[2])
    \/ \E id \in RawIds, e \in ExpenseInputs, now \in Today :
          add_expense(id, e[1], e[2], e[3], now)
    \/ \E id \in RawIds, oid \in 0..MaxExpenses : remove_expense(id, oid)
    \/ \E id \in RawIds : print_expense_history(id)
    \/ \E id \in RawIds, f \in FileNames : save_expense_history(id, f)

SpecExpense == Init /\ [][NextExpense]_vars

(* --------------------------- group deposits ---------------------------- *)
\* the users a deposit names: its ids, lower-cased
Named(ids) == { lower(ids[i]) : i \in 1..Len(ids) }

\* the ids of a deposit that are not registered
Missing(ids) == { k \in Named(ids) : k \notin DOMAIN users }

\* balances and the rest of every user record are as before the step
SameUsers == users' = users

\* every named user is credited amount, nobody else changes, one record is appended
Applied(amt, ids) ==
    /\ Named(ids) \subseteq DOMAIN users
    /\ DOMAIN users' = DOMAIN users
    /\ \A k \in DOMAIN users :
          /\ users'[k].balance =
                IF k \in Named(ids) THEN users[k].balance + amt ELSE users[k].balance
          /\ users'[k].name = users[k].name
          /\ users'[k].account_number = users[k].account_number
          /\ users'[k].expenses = users[k].expenses
    /\ group_deposits' =
          group_deposits \o << << amt, [i \in 1..Len(ids) |-> lower(ids[i])] >> >>

\* some named users were credited and some were not
Partial(ids) ==
    \E k1, k2 \in Named(ids) \cap DOMAIN users :
        /\ users'[k1].balance # users[k1].balance
        /\ users'[k2].balance = users[k2].balance

\* C1: one add_group_deposit call either credits every named user by exactly
\* the amount and appends one record, or changes no balance (and appends
\* nothing); never a proper non-empty subset of the named users.
C1_AllOrNothing ==
    [][\A amt \in DepositAmounts, ids \in IdLists :
          add_group_deposit(amt, ids) =>
              /\ Applied(amt, ids) \/ (SameUsers /\ group_deposits' = group_deposits)
              /\ ~(Applied(amt, ids) /\ SameUsers /\ group_deposits' = group_deposits)
              /\ ~Partial(ids)]_vars

\* two users credited by one deposit of 100, recorded once
C1_Witness ==
    /\ out.kind = "deposit_added"
    /\ out.ids = { <<97>>, <<98, 111>> }
    /\ group_deposits = << << 100, << <<97>>, <<98, 111>> >> >> >>
    /\ users[<<97>>].balance = 100
    /\ users[<<98, 111>>].balance = 100

\* C2: a deposit with an unregistered id is rejected: users and deposits
\* are as before and the reported missing set is exactly the lower-cased
\* unregistered ids.
C2_RejectsMissing ==
    [][\A amt \in DepositAmounts, ids \in IdLists :
          (add_group_deposit(amt, ids) /\ Missing(ids) # {}) =>
              /\ SameUsers
              /\ group_deposits' = group_deposits
              /\ out'.kind = "deposit_failed"
              /\ out'.ids = Missing(ids)]_vars

\* "a" registered with a balance, "bo" not: the rejection reports {"bo"}
C2_Witness ==
    /\ out.kind = "deposit_failed"
    /\ out.ids = { <<98, 111>> }
    /\ DOMAIN users = { <<97>> }
    /\ users[<<97>>].balance = 100
    /\ Len(group_deposits) = 1

\* C10: a deposit whose ids are all registered is applied, also when an id
\* occurs twice, whatever the amount and the limits; every rejection reports
\* a non-empty set of missing ids.
C10_AppliedWhenAllRegistered ==
    [][\A amt \in DepositAmounts, ids \in IdLists :
          add_group_deposit(amt, ids) =>
              /\ Missing(ids) = {} =>
                    /\ out'.kind = "deposit_added"
                    /\ Len(group_deposits') = Len(group_deposits) + 1
              /\ out'.kind = "deposit_failed" => out'.ids # {}]_vars

(* ------------------------------ registry ------------------------------- *)
upper_char(c) == IF c \in 97..122 THEN c - 32 ELSE c

\* the two ids differ at most in letter case
SameLetters(s, t) ==
    /\ Len(s) = Len(t)
    /\ \A i \in 1..Len(s) : upper_char(s[i]) = upper_char(t[i])

IsLowerCase(s) == \A i \in 1..Len(s) : s[i] \notin 65..90

\* the keys are the lower-case forms of the ids passed, one key per id
C3_Keys ==
    /\ \A k \in DOMAIN users :
          IsLowerCase(k) /\ \E id \in added : SameLetters(k, id)
    /\ \A id \in added :
          Cardinality({ k \in DOMAIN users : SameLetters(k, id) }) = 1

\* a user that enters the registry has balance 0 and no expenses
C3_Fresh ==
    \A k \in DOMAIN users' \ DOMAIN users :
        users'[k].balance = 0 /\ users'[k].expenses = << >>

\* C3: after any add_user calls the registry keys are exactly the lower-cased
\* ids passed, every key is lower-case, ids that differ only in case are one
\* user, and a new user starts with balance 0 and no expenses.
C3_Registry == []C3_Keys /\ [][C3_Fresh]_vars

\* "a", "A" and "Bo" were passed: two users, "a" and "bo"
C3_Witness ==
    /\ added = { <<97>>, <<65>>, <<66, 111>> }
    /\ DOMAIN users = { <<97>>, <<98, 111>> }
    /\ out.kind = "already_exists"

\* C4: add_user with an id already registered (in any letter case) changes no
\* user record, no deposit, no limit and no file, and reports a duplicate.
C4_DuplicateIsNoOp ==
    [][\A id \in RawIds, p \in Profiles :
          (add_user(id, p[1], p[2]) /\ \E k \in DOMAIN users : SameLetters(k, id)) =>
              /\ users' = users
              /\ group_deposits' = group_deposits
              /\ deposit_limits' = deposit_limits
              /\ files' = files
              /\ out'.kind = "already_exists"]_vars

\* a duplicate was reported for a user who holds a balance and an expense
C4_Witness ==
    /\ out.kind = "already_exists"
    /\ out.ids = { <<97>> }
    /\ <<97>> \in DOMAIN users
    /\ users[<<97>>].balance = 100
    /\ Len(users[<<97>>].expenses) = 1
    /\ deposit_limits["daily"] = <<100>>

(* --------------------------- deposit limits ---------------------------- *)
LimitPeriods == { "daily", "weekly", "monthly" }

C8_Step ==
    \A p \in Periods, l \in Limits :
        set_deposit_limit(p, l) =>
            /\ p \in LimitPeriods =>
                  /\ deposit_limits'[p] = l
                  /\ \A q \in LimitPeriods \ {p} : deposit_limits'[q] = deposit_limits[q]
            /\ p \notin LimitPeriods => deposit_limits' = deposit_limits
            /\ out'.kind = "none"
            /\ users' = users
            /\ group_deposits' = group_deposits

\* C8: set_deposit_limit sets the limit of a known period only, ignores any
\* other period silently, keeps the three keys daily, weekly and monthly, and
\* never changes users or deposits.
C8_DepositLimit ==
    [](DOMAIN deposit_limits = LimitPeriods) /\ [][C8_Step]_vars

\* only the weekly limit is set, next to a user with a balance and an expense
C8_Witness ==
    /\ deposit_limits = [q \in LimitPeriods |-> IF q = "weekly" THEN <<100>> ELSE None]
    /\ out.kind = "none"
    /\ \E k \in DOMAIN users : users[k].balance = 100 /\ Len(users[k].expenses) = 1

(* ------------------------------ expenses ------------------------------- *)
Oids(lst) == [i \in 1..Len(lst) |-> lst[i].oid]

\* the list without the expense, the others in their order
Without(lst, oid) == SelectSeq(lst, LAMBDA e : e.oid # oid)

\* C5: remove_expense for a registered user leaves every list unchanged and
\* reports 'expense not found' when the expense is not in that user's list;
\* when it is, exactly that element goes and the others keep their order.
C5_RemoveExpense ==
    [][\A id \in RawIds, oid \in 0..MaxExpenses :
          (remove_expense(id, oid) /\ \E k \in DOMAIN users : SameLetters(k, id)) =>
              LET uid == CHOOSE k \in DOMAIN users : SameLetters(k, id)
                  lst == users[uid].expenses
              IN  /\ DOMAIN users' = DOMAIN users
                  /\ \A k \in DOMAIN users \ {uid} : users'[k] = users[k]
                  /\ IF oid \in Range(Oids(lst))
                     THEN /\ users'[uid].expenses = Without(lst, oid)
                          /\ Len(users'[uid].expenses) = Len(lst) - 1
                          /\ out'.kind = "none"
                     ELSE /\ users'[uid] = users[uid]
                          /\ out'.kind = "expense_not_found"]_vars

\* the second of three expenses was removed, then a removal found nothing
C5_Witness ==
    /\ out.kind = "expense_not_found"
    /\ out.ids = { <<97>> }
    /\ <<97>> \in DOMAIN users
    /\ Oids(users[<<97>>].expenses) = << 1, 3 >>

\* "<date>: $<amount> - <category>" and the line end
FileLine(e) == e.date \o ": $" \o ToString(e.amount) \o " - " \o e.category \o "\n"

\* the expenses are in the order they were added
InOrderAdded(lst) == \A i, j \in 1..Len(lst) : i < j => lst[i].oid < lst[j].oid

\* C7: save_expense_history for a registered user leaves in the file exactly
\* one line "<date>: $<amount> - <category>" per expense now in the list, in
\* the order added, nothing of an earlier save, and does not change the ledger.
C7_SaveHistory ==
    [][\A id \in RawIds, f \in FileNames :
          (save_expense_history(id, f) /\ \E k \in DOMAIN users : SameLetters(k, id)) =>
              LET uid == CHOOSE k \in DOMAIN users : SameLetters(k, id)
                  lst == users[uid].expenses
              IN  /\ InOrderAdded(lst)
                  /\ files'[f] = [i \in 1..Len(lst) |-> FileLine(lst[i])]
                  /\ users' = users
                  /\ group_deposits' = group_deposits
                  /\ deposit_limits' = deposit_limits]_vars

\* three expenses were added, the second was removed, and the file holds the
\* two lines of the remaining expenses
C7_Witness ==
    /\ next_oid = 4
    /\ <<97>> \in DOMAIN users
    /\ Oids(users[<<97>>].expenses) = << 1, 3 >>
    /\ DOMAIN files = FileNames
    /\ files["expense_history_a.txt"] =
          << "2024-04-21: $50 - Food\n", "2024-04-20: $30 - Transportation\n" >>

(* --------------------------- unknown user ids -------------------------- *)
NotFound(id) ==
    /\ out'.kind = "user_not_found"
    /\ out'.ids = { lower(id) }
    /\ users' = users
    /\ group_deposits' = group_deposits
    /\ deposit_limits' = deposit_limits
    /\ files' = files

\* C6: add_expense, remove_expense, print_expense_history and
\* save_expense_history with an unregistered id report 'user not found' and
\* change nothing; no file is created or truncated.
C6_UnknownUser ==
    [][\A id \in CoreIds :
          (\A k \in DOMAIN users : ~SameLetters(k, id)) =>
              /\ \A now \in Today :
                    add_expense(id, CoreExpense[1], CoreExpense[2], CoreExpense[3], now)
                        => NotFound(id)
              /\ \A oid \in 0..CoreExpenses : remove_expense(id, oid) => NotFound(id)
              /\ print_expense_history(id) => NotFound(id)
              /\ \A f \in FileNames : save_expense_history(id, f) => NotFound(id)]_vars

\* "bo" is unknown while "a" holds a balance, an expense and a saved file
C6_Witness ==
    /\ out.kind = "user_not_found"
    /\ out.ids = { <<98, 111>> }
    /\ DOMAIN users = { <<97>> }
    /\ users[<<97>>].balance = 100
    /\ Len(users[<<97>>].expenses) = 1
    /\ DOMAIN files = FileNames
    /\ Len(files["expense_history_a.txt"]) = 1

(* ------------------------------ balances ------------------------------- *)
\* the amounts of the deposit records that name user k
RECURSIVE DepositedTo(_, _)
DepositedTo(k, deps) ==
    IF deps = << >> THEN 0
    ELSE (IF k \in Range(Head(deps)[2]) THEN Head(deps)[1] ELSE 0)
         + DepositedTo(k, Tail(deps))

C9_Balances ==
    \A k \in DOMAIN users : users[k].balance = DepositedTo(k, group_deposits)

C9_Step ==
    /\ Len(group_deposits') >= Len(group_deposits)
    /\ SubSeq(group_deposits', 1, Len(group_deposits)) = group_deposits
    /\ (\E k \in DOMAIN users : users'[k].balance # users[k].balance) =>
          /\ Len(group_deposits') = Len(group_deposits) + 1
          /\ out'.kind = "deposit_added"

\* C9: every balance is the sum of the deposit records naming the user, the
\* deposit list only grows, and only a successful add_group_deposit changes a
\* balance.
C9_BalanceIsDeposits == []C9_Balances /\ [][C9_Step]_vars

\* two deposits reached "a", one of them "bo"; the expense of "a" took nothing
C9_Witness ==
    /\ DOMAIN users = { <<97>>, <<98, 111>> }
    /\ users[<<97>>].balance = 200
    /\ users[<<98, 111>>].balance = 100
    /\ Len(users[<<97>>].expenses) = 1
    /\ Len(group_deposits) = 2

====
